---- MODULE Spec2Model ----
(***************************************************************************)
(* GRVT adapter: the in-memory order ledger (GrvtRest), the user-event     *)
(* channel (GrvtWebSocket) and the adapter operations that tie them        *)
(* together (GrvtAdapter).                                                  *)
(*                                                                         *)
(* Scheduling is that of one asyncio event loop.  A coroutine runs until   *)
(* it awaits something that is not ready.  In this code the only awaits    *)
(* that suspend are: the consumer's queue.get() on an empty queue, the     *)
(* consumer's await of a coroutine subscriber, and disconnect()'s await of *)
(* the cancelled consumer task.  asyncio.Lock.acquire() returns without    *)
(* suspending when the lock is free, and no holder of GrvtRest._lock ever  *)
(* suspends, so the lock is never contended; Queue.put() on an unbounded   *)
(* queue never suspends.  Hence every GrvtRest / GrvtAdapter operation is  *)
(* one atomic action, a consumer task is a sequence of steps between its   *)
(* suspension points, and disconnect() is two steps.                       *)
(***************************************************************************)
EXTENDS Integers, Sequences, FiniteSets, TLC

\* ---------------------------------------------------------------- bounds
MaxClock  == 2      \* wall-clock milliseconds 1..MaxClock
MaxEvents == 4      \* events ever handed to send_user_event
MaxEmits  == 2      \* of these, by direct send_user_event calls
MaxTasks  == 2      \* consumer tasks not yet done, or done and still awaited
MaxSubs   == 3      \* length of the subscriber list
MaxDisc   == 1      \* disconnect() calls suspended at the same time
MaxCallers == 2     \* callers of GrvtRest methods taken step by step

\* ---------------------------------------------------------------- inputs
Symbols     == {"BTC", "ETH"}
Sides       == {"buy"}
\* What a place call asks for: symbol, amount and (optional) price.
Requests    == {[symbol |-> "BTC", amount |-> 1, price |-> <<>>],
                [symbol |-> "ETH", amount |-> 2, price |-> <<3>>]}
LimitOrMarket == {"LIMIT", "POST_ONLY", "FOK", "IOC", "MARKET"}
LimitFamily == {"LIMIT", "POST_ONLY", "FOK", "IOC"}
OrderTypes  == {"LIMIT", "POST_ONLY", "FOK", "IOC", "MARKET"}
\* An Optional argument is a sequence of length 0 (None) or 1.
ClientIds   == {<<"cid", 1>>}
OptClientIds == {<<>>} \cup {<<c>> : c \in ClientIds}
\* f"grvt_{int(time.time() * 1000)}": the millisecond, prefixed.
GenId(ms)   == <<"grvt", ms>>
AllIds      == ClientIds \cup {GenId(ms) : ms \in 1..MaxClock}
\* The empty string: falsy where an id is tested with `or` / `not`.
EmptyId     == <<>>
OptSymbols  == {<<>>} \cup {<<sy>> : sy \in Symbols}

\* Subscriber callbacks: how each behaves when the consumer invokes it.
\*   coro:   asyncio.iscoroutinefunction(callback), and it suspends
\*   raises: it ends by raising an Exception
Callbacks == {"A", "B", "C"}
IsCoro(cb) == cb = "C"
Raises(cb) == cb = "B"
\* The callback the k-th subscribe call on a list of k-1 registers.
Roster(k) == IF k = 1 THEN "B" ELSE IF k % 2 = 0 THEN "C" ELSE "A"

TaskIds == 1..MaxTasks
Callers == 1..MaxCallers
\* Decimal("100000"): the simulated balance GrvtRest starts with.
InitialBalance == 100000
EventIds == 1..MaxEvents

VARIABLES
    \* GrvtRest
    orders,         \* _orders: the dict, as the sequence of its values in insertion order
    now,            \* the wall clock, in milliseconds
    balance,        \* _balance
    position_size,  \* _position_size: the dict, as a sequence of [symbol, size]
    lock,           \* _lock: [locked, waiters (callers suspended in acquire(), oldest first)]
    callers,        \* per caller of a GrvtRest method taken step by step: where it is
    \* GrvtWebSocket
    callbacks,      \* _callbacks
    connected,      \* _connected
    queue,          \* _queue: the items not yet taken
    getters,        \* _queue._getters: tasks suspended in get(), oldest first
    consumer_task,  \* _consumer_task: a task id, or 0 for None
    tasks,          \* every task connect() created: where it is
    awaiting,       \* per task, the number of disconnect() calls suspended awaiting it
    \* history
    sent,           \* the number of events handed to send_user_event so far
    owed,           \* per event sent while disconnected: the subscribers registered
                    \* then, until a disconnect() or unsubscribe() is called (then 0)
    log,            \* subscriber invocations, in order
    disp,           \* per event taken from the queue: the fan-out
    stale,          \* events that sat in the queue when a disconnect() was called
    emitted,        \* the data of every event handed to send_user_event, in order
    returned,       \* ids returned by place calls that omitted client_order_id
    ret             \* the last adapter call and its outcome

restVars == <<orders, now, balance, position_size, lock, callers>>
wsVars   == <<callbacks, connected, queue, getters, consumer_task, tasks, awaiting>>
histVars == <<sent, owed, log, disp, stale, emitted>>
vars == <<orders, now, balance, position_size, lock, callers, callbacks, connected, queue,
          getters, consumer_task, tasks, awaiting, sent, owed, log, disp, stale, emitted,
          returned, ret>>

\* ------------------------------------------------------- the orders dict
Keys(d) == {d[i].id : i \in DOMAIN d}
HasKey(d, k) == \E i \in DOMAIN d : d[i].id = k
IndexOf(d, k) == CHOOSE i \in DOMAIN d : d[i].id = k
DictGet(d, k) == d[IndexOf(d, k)]
\* d[k] = v: an existing key keeps its place, a new key goes last.
DictSet(d, k, v) ==
    IF HasKey(d, k) THEN [d EXCEPT ![IndexOf(d, k)] = v] ELSE Append(d, v)

\* `x or Decimal("0")` on an Optional[Decimal].
OrZero(p) == IF p = <<>> \/ p[1] = 0 THEN 0 ELSE p[1]

\* GrvtRest._to_order_data
_to_order_data(order) ==
    [id        |-> order.id,
     client_id |-> order.client_id,
     symbol    |-> order.symbol,
     side      |-> order.side,
     type      |-> order.type,
     amount    |-> order.amount,
     price     |-> order.price,
     filled    |-> order.filled,
     remaining |-> order.amount - order.filled,
     cost      |-> OrZero(<<order.price>>) * order.amount,
     average   |-> order.price,
     status    |-> order.status,
     timestamp |-> order.timestamp,
     updated   |-> order.updated]

\* The record place_limit_order stores under order_id.
NewOrderFilled(order_id, client_order_id, symbol, side, price, size, ts) ==
    [id |-> order_id, client_id |-> client_order_id, symbol |-> symbol, side |-> side,
     type |-> "LIMIT", price |-> price, amount |-> size, filled |-> size,
     status |-> "OPEN", timestamp |-> ts, updated |-> ts]
NewOrder(order_id, client_order_id, symbol, side, price, size, ts) ==
    [id |-> order_id, client_id |-> client_order_id, symbol |-> symbol, side |-> side,
     type |-> "LIMIT", price |-> price, amount |-> size, filled |-> 0,
     status |-> "OPEN", timestamp |-> ts, updated |-> ts]

\* The id place_limit_order uses: client_order_id or f"grvt_{ms}".
PlaceId(client_order_id, ms) ==
    IF client_order_id # <<>> THEN client_order_id[1] ELSE GenId(ms)

\* GrvtRest.place_limit_order: the dict after the call.
PlaceLedger(d, symbol, side, price, size, client_order_id, ms) ==
    LET order_id == PlaceId(client_order_id, ms)
    IN  DictSet(d, order_id,
                NewOrder(order_id, client_order_id, symbol, side, price, size, ms))

\* GrvtRest.place_limit_order: _balance after the call.  The method assigns
\* neither _balance nor _position_size: no margin is reserved, no fee taken.
PlaceFundsReserved(b, price, size) == b - price * size
PlaceFunds(b, price, size) == b

\* GrvtRest.cancel_order: whether it finds the order, and the dict after the call.
CancelFindsOpenOnly(d, target_id) ==
    HasKey(d, target_id) /\ DictGet(d, target_id).status = "OPEN"
CancelFinds(d, target_id) == HasKey(d, target_id)
CancelLedger(d, target_id, ms) ==
    IF ~CancelFinds(d, target_id) THEN d
    ELSE [d EXCEPT ![IndexOf(d, target_id)].status = "CANCELED",
                   ![IndexOf(d, target_id)].updated = ms]

\* GrvtRest.get_open_orders: OrderData of the OPEN orders, in dict order.
MatchesAnyStatus(order, symbol) == symbol = <<>> \/ order.symbol = symbol[1]
MatchesOpenAnySymbol(order, symbol) == order.status = "OPEN"
MatchesOpen(order, symbol) ==
    order.status = "OPEN" /\ (symbol = <<>> \/ order.symbol = symbol[1])
RECURSIVE OpenFrom(_, _, _)
OpenFrom(d, symbol, i) ==
    IF i > Len(d) THEN <<>>
    ELSE (IF MatchesOpen(d[i], symbol) THEN <<_to_order_data(d[i])>> ELSE <<>>)
         \o OpenFrom(d, symbol, i + 1)
get_open_orders(d, symbol) == OpenFrom(d, symbol, 1)

\* ------------------------------------------------------- the event channel
\* The channel's mutable state as one record, so that one adapter call can
\* apply several channel operations in sequence.
Ws == [callbacks |-> callbacks, connected |-> connected, queue |-> queue,
       getters |-> getters, consumer_task |-> consumer_task, tasks |-> tasks,
       sent |-> sent, owed |-> owed]

NoTask == [st |-> "none", cancel |-> FALSE, ev |-> 0, snap |-> <<>>, idx |-> 0]
\* asyncio.create_task(self._consume()): scheduled, not yet run.
NewTask == [NoTask EXCEPT !.st = "new"]
\* A finished task; its locals are gone.
DoneTask == [NoTask EXCEPT !.st = "done"]
\* Back at `while self._connected`, between two events.
LoopTask == [NoTask EXCEPT !.st = "run_loop"]
RunStates == {"run_loop", "run_get", "run_fan"}
\* The event loop runs one task at a time: nothing else runs while a
\* consumer is between two suspension points.
Idle == \A t \in TaskIds : tasks[t].st \notin RunStates
Live(tk, t) == tk[t].st \notin {"none", "done"}

RECURSIVE SumTo(_, _)
SumTo(f, n) == IF n = 0 THEN 0 ELSE f[n] + SumTo(f, n - 1)
Suspended == SumTo(awaiting, MaxTasks)

Min(S) == CHOOSE x \in S : \A y \in S : x <= y
\* A slot for a new task: never used, or its task is done and no disconnect()
\* still awaits it (connect() makes a task only when _consumer_task holds none
\* that is not done, so nothing else refers to a done task).
FreeTasks(tk) ==
    {t \in TaskIds : tk[t].st = "none" \/ (tk[t].st = "done" /\ awaiting[t] = 0)}

\* connect(): `self._consumer_task is None or self._consumer_task.done()`
NeedsTask(w) == w.consumer_task = 0 \/ w.tasks[w.consumer_task].st = "done"
CanConnect(w) == NeedsTask(w) => FreeTasks(w.tasks) # {}
WsConnect(w) ==
    IF NeedsTask(w)
    THEN LET t == Min(FreeTasks(w.tasks))
         IN  [w EXCEPT !.connected = TRUE, !.consumer_task = t, !.tasks[t] = NewTask]
    ELSE [w EXCEPT !.connected = TRUE]

\* Queue._wakeup_next(self._getters): drop the getters whose future is done
\* (cancelled), give the first pending one its result.
WakeupNext(g, tk) ==
    LET pending == {i \in DOMAIN g : ~tk[g[i]].cancel}
    IN  IF pending = {} THEN [getters |-> <<>>, tasks |-> tk]
        ELSE [getters |-> SubSeq(g, Min(pending) + 1, Len(g)),
              tasks   |-> [tk EXCEPT ![g[Min(pending)]].st = "woken"]]

\* send_user_event(data): reconnect if not connected, then queue.put(data).
\* Event n is the n-th one ever sent.
CanSend(w, k) ==
    /\ w.sent + k <= MaxEvents
    /\ ~w.connected => CanConnect(w)
WsSend(w, data) ==
    LET w1 == IF ~w.connected THEN WsConnect(w) ELSE w
        n  == w.sent + 1
        wk == WakeupNext(w1.getters, w1.tasks)
    IN  [w1 EXCEPT !.queue   = Append(@, [n |-> n, data |-> data]),
                   !.getters = wk.getters,
                   !.tasks   = wk.tasks,
                   !.sent    = n,
                   !.owed[n] = IF w.connected THEN 0 ELSE Len(w.callbacks)]

SetWs(w) ==
    /\ callbacks' = w.callbacks
    /\ connected' = w.connected
    /\ queue' = w.queue
    /\ getters' = w.getters
    /\ consumer_task' = w.consumer_task
    /\ tasks' = w.tasks
    /\ sent' = w.sent
    /\ owed' = w.owed
    /\ emitted' = emitted \o [i \in 1..(Len(w.queue) - Len(queue)) |-> w.queue[Len(queue) + i].data]

\* A caller that is in no GrvtRest method.
IdleCaller == [pc |-> "idle", op |-> "none", id |-> <<>>, rq |-> <<>>]

Init ==
    /\ orders = <<>>
    /\ now = 1
    /\ balance = InitialBalance
    /\ position_size = <<>>
    /\ lock = [locked |-> FALSE, waiters |-> <<>>]
    /\ callers = [c \in Callers |-> IdleCaller]
    /\ callbacks = <<>>
    /\ connected = FALSE
    /\ queue = <<>>
    /\ getters = <<>>
    /\ consumer_task = 0
    /\ tasks = [t \in TaskIds |-> NoTask]
    /\ awaiting = [t \in TaskIds |-> 0]
    /\ sent = 0
    /\ owed = [n \in EventIds |-> 0]
    /\ log = <<>>
    /\ disp = [n \in EventIds |-> [st |-> "none", len |-> 0]]
    /\ stale = {}
    /\ emitted = <<>>
    /\ returned = <<>>
    /\ ret = [op |-> "none", err |-> "", val |-> <<>>]

\* ------------------------------------------------------ GrvtWebSocket calls
Connect ==
    /\ Idle
    /\ CanConnect(Ws)
    /\ SetWs(WsConnect(Ws))
    /\ UNCHANGED <<restVars, awaiting, log, disp, stale, returned, ret>>

NothingOwed == [n \in EventIds |-> 0]

\* disconnect() up to `await self._consumer_task`.  Awaiting a task that is
\* already done does not suspend.
DisconnectBegin ==
    /\ Idle
    /\ connected' = FALSE
    /\ stale' = stale \cup {queue[i].n : i \in DOMAIN queue}
    /\ owed' = NothingOwed
    /\ IF consumer_task = 0
       THEN UNCHANGED <<consumer_task, tasks, awaiting>>
       ELSE IF tasks[consumer_task].st = "done"
       THEN consumer_task' = 0 /\ UNCHANGED <<tasks, awaiting>>
       ELSE /\ Suspended < MaxDisc
            /\ tasks' = [tasks EXCEPT ![consumer_task].cancel = TRUE]
            /\ awaiting' = [awaiting EXCEPT ![consumer_task] = @ + 1]
            /\ UNCHANGED consumer_task
    /\ UNCHANGED <<restVars, callbacks, queue, getters, sent, log, disp, emitted, returned, ret>>

\* disconnect() from the return of `await self._consumer_task` on.
DisconnectResume(t) ==
    /\ Idle
    /\ awaiting[t] > 0
    /\ tasks[t].st = "done"
    /\ consumer_task' = 0
    /\ awaiting' = [awaiting EXCEPT ![t] = @ - 1]
    /\ UNCHANGED <<restVars, callbacks, connected, queue, getters, tasks,
                   histVars, returned, ret>>

SubscribeUserStream(cb) ==
    /\ Idle
    /\ Len(callbacks) < MaxSubs
    /\ cb = Roster(Len(callbacks) + 1)
    /\ callbacks' = Append(callbacks, cb)
    /\ UNCHANGED <<restVars, connected, queue, getters, consumer_task, tasks, awaiting,
                   histVars, returned, ret>>

\* GrvtAdapter.unsubscribe: self.websocket._callbacks.clear()
UnsubscribeDropsLast ==
    /\ Idle
    /\ callbacks' = SubSeq(callbacks, 1, Len(callbacks) - 1)
    /\ owed' = NothingOwed
    /\ UNCHANGED <<restVars, connected, queue, getters, consumer_task, tasks, awaiting,
                   sent, log, disp, stale, emitted, returned, ret>>
Unsubscribe ==
    /\ Idle
    /\ callbacks' = <<>>
    /\ owed' = NothingOwed
    /\ UNCHANGED <<restVars, connected, queue, getters, consumer_task, tasks, awaiting,
                   sent, log, disp, stale, emitted, returned, ret>>

SendUserEvent ==
    /\ Idle
    /\ sent < MaxEmits
    /\ CanSend(Ws, 1)
    /\ SetWs(WsSend(Ws, <<>>))
    /\ UNCHANGED <<restVars, awaiting, log, disp, stale, returned, ret>>

\* ------------------------------------------------------ the consumer task
Entry(n, i, cb, ph) == [ev |-> n, reg |-> i, cb |-> cb, ph |-> ph]
Outcome(cb) == IF Raises(cb) THEN "raise" ELSE "return"

\* First step of a task: into `while self._connected`.  A task cancelled
\* before its first step never runs its body.
ConsumerStart(t) ==
    /\ Idle
    /\ tasks[t].st = "new"
    /\ tasks' = [tasks EXCEPT ![t] = IF tasks[t].cancel THEN DoneTask ELSE LoopTask]
    /\ UNCHANGED <<restVars, callbacks, connected, queue, getters, consumer_task,
                   awaiting, histVars, returned, ret>>

\* `while self._connected:`
ConsumerLoop(t) ==
    /\ tasks[t].st = "run_loop"
    /\ tasks' = [tasks EXCEPT ![t].st = IF connected THEN "run_get" ELSE "done"]
    /\ UNCHANGED <<restVars, callbacks, connected, queue, getters, consumer_task,
                   awaiting, histVars, returned, ret>>

\* Queue.get(): `while self.empty(): await getter`, then get_nowait(), then
\* `list(self._callbacks)`.
ConsumerGetPeeks(t) ==
    /\ tasks[t].st = "run_get"
    /\ IF queue = <<>>
       THEN /\ getters' = Append(getters, t)
            /\ tasks' = [tasks EXCEPT ![t].st = "get"]
            /\ UNCHANGED <<queue, disp>>
       ELSE /\ queue' = queue
            /\ tasks' = [tasks EXCEPT ![t].st = "run_fan", ![t].ev = Head(queue).n,
                                      ![t].snap = callbacks, ![t].idx = 1]
            /\ disp' = [disp EXCEPT ![Head(queue).n] = [st |-> "active", len |-> Len(callbacks)]]
            /\ UNCHANGED getters
    /\ UNCHANGED <<restVars, callbacks, connected, consumer_task, awaiting,
                   sent, owed, log, stale, emitted, returned, ret>>
ConsumerGet(t) ==
    /\ tasks[t].st = "run_get"
    /\ IF queue = <<>>
       THEN /\ getters' = Append(getters, t)
            /\ tasks' = [tasks EXCEPT ![t].st = "get"]
            /\ UNCHANGED <<queue, disp>>
       ELSE /\ queue' = Tail(queue)
            /\ tasks' = [tasks EXCEPT ![t].st = "run_fan", ![t].ev = Head(queue).n,
                                      ![t].snap = callbacks, ![t].idx = 1]
            /\ disp' = [disp EXCEPT ![Head(queue).n] = [st |-> "active", len |-> Len(callbacks)]]
            /\ UNCHANGED getters
    /\ UNCHANGED <<restVars, callbacks, connected, consumer_task, awaiting,
                   sent, owed, log, stale, emitted, returned, ret>>

\* The getter future got its result: the task resumes inside get().
ConsumerWoken(t) ==
    /\ Idle
    /\ tasks[t].st = "woken"
    /\ ~tasks[t].cancel
    /\ tasks' = [tasks EXCEPT ![t].st = "run_get"]
    /\ UNCHANGED <<restVars, callbacks, connected, queue, getters, consumer_task,
                   awaiting, histVars, returned, ret>>

\* One turn of `for callback in list(self._callbacks)`.  A plain callback
\* runs to its end here, a raised Exception is caught; a coroutine callback
\* suspends the task.
ConsumerFanExcKills(t) ==
    /\ tasks[t].st = "run_fan"
    /\ LET i  == tasks[t].idx
           n  == tasks[t].ev
           cb == tasks[t].snap[i]
       IN  IF i > Len(tasks[t].snap)
           THEN /\ tasks' = [tasks EXCEPT ![t] = LoopTask]
                /\ disp' = [disp EXCEPT ![n].st = "complete"]
                /\ UNCHANGED log
           ELSE IF IsCoro(cb)
           THEN /\ tasks' = [tasks EXCEPT ![t].st = "cb"]
                /\ log' = Append(log, Entry(n, i, cb, "call"))
                /\ UNCHANGED disp
           ELSE /\ tasks' = IF Raises(cb) THEN [tasks EXCEPT ![t] = DoneTask]
                            ELSE [tasks EXCEPT ![t].idx = i + 1]
                /\ log' = log \o <<Entry(n, i, cb, "call"), Entry(n, i, cb, Outcome(cb))>>
                /\ UNCHANGED disp
    /\ UNCHANGED <<restVars, callbacks, connected, queue, getters, consumer_task,
                   awaiting, sent, owed, stale, emitted, returned, ret>>
ConsumerFan(t) ==
    /\ tasks[t].st = "run_fan"
    /\ LET i  == tasks[t].idx
           n  == tasks[t].ev
           cb == tasks[t].snap[i]
       IN  IF i > Len(tasks[t].snap)
           THEN /\ tasks' = [tasks EXCEPT ![t] = LoopTask]
                /\ disp' = [disp EXCEPT ![n].st = "complete"]
                /\ UNCHANGED log
           ELSE IF IsCoro(cb)
           THEN /\ tasks' = [tasks EXCEPT ![t].st = "cb"]
                /\ log' = Append(log, Entry(n, i, cb, "call"))
                /\ UNCHANGED disp
           ELSE /\ tasks' = [tasks EXCEPT ![t].idx = i + 1]
                /\ log' = log \o <<Entry(n, i, cb, "call"), Entry(n, i, cb, Outcome(cb))>>
                /\ UNCHANGED disp
    /\ UNCHANGED <<restVars, callbacks, connected, queue, getters, consumer_task,
                   awaiting, sent, owed, stale, emitted, returned, ret>>

\* The awaited coroutine callback ends (returns or raises): on to the next.
ConsumerCallbackEnds(t) ==
    /\ Idle
    /\ tasks[t].st = "cb"
    /\ ~tasks[t].cancel
    /\ LET i == tasks[t].idx
           cb == tasks[t].snap[i]
       IN  /\ log' = Append(log, Entry(tasks[t].ev, i, cb, Outcome(cb)))
           /\ tasks' = [tasks EXCEPT ![t].st = "run_fan", ![t].idx = i + 1]
    /\ UNCHANGED <<restVars, callbacks, connected, queue, getters, consumer_task,
                   awaiting, sent, owed, disp, stale, emitted, returned, ret>>

Without(g, t) == SelectSeq(g, LAMBDA x : x # t)

\* The task resumes with CancelledError thrown at its await.  In get(): the
\* getter is removed and, if it already held a result, the next getter is
\* woken in its place.  In a coroutine callback: `except Exception` does not
\* catch it, the fan-out stops there.  _consume's `except CancelledError`
\* ends the task.
ConsumerCancelled(t) ==
    /\ Idle
    /\ tasks[t].cancel
    /\ tasks[t].st \in {"get", "woken", "cb"}
    /\ LET done == [tasks EXCEPT ![t] = DoneTask]
           wk   == WakeupNext(getters, done)
       IN  IF tasks[t].st = "get"
           THEN /\ getters' = Without(getters, t)
                /\ tasks' = done
                /\ UNCHANGED <<log, disp>>
           ELSE IF tasks[t].st = "woken"
           THEN /\ getters' = IF queue # <<>> THEN wk.getters ELSE getters
                /\ tasks' = IF queue # <<>> THEN wk.tasks ELSE done
                /\ UNCHANGED <<log, disp>>
           ELSE /\ log' = Append(log, Entry(tasks[t].ev, tasks[t].idx,
                                            tasks[t].snap[tasks[t].idx], "cancelled"))
                /\ disp' = [disp EXCEPT ![tasks[t].ev].st = "cancelled"]
                /\ tasks' = done
                /\ UNCHANGED getters
    /\ UNCHANGED <<restVars, callbacks, connected, queue, consumer_task,
                   awaiting, sent, owed, stale, emitted, returned, ret>>

ConsumerStep(t) ==
    \/ ConsumerStart(t)
    \/ ConsumerLoop(t)
    \/ ConsumerGet(t)
    \/ ConsumerWoken(t)
    \/ ConsumerFan(t)
    \/ ConsumerCallbackEnds(t)
    \/ ConsumerCancelled(t)

\* ------------------------------------------------------ GrvtAdapter calls
Result(op, err, val) == [op |-> op, err |-> err, val |-> val]

\* create_order: reject a non-limit type (ValueError, "only the limit order
\* interface is supported"), else place_limit_order and _emit_user_event(order).
CreateOrder(symbol, side, order_type, amount, price, client_order_id) ==
    LET d2  == PlaceLedger(orders, symbol, side, OrZero(price), amount,
                           client_order_id, now)
        order == _to_order_data(DictGet(d2, PlaceId(client_order_id, now)))
    IN  /\ Idle
        /\ IF order_type \notin LimitFamily
           THEN /\ ret' = Result("create_order", "UnsupportedOrderType", <<>>)
                /\ UNCHANGED <<orders, balance, wsVars, sent, owed, emitted, returned>>
           ELSE /\ CanSend(Ws, 1)
                /\ orders' = d2
                /\ balance' = PlaceFunds(balance, OrZero(price), amount)
                /\ SetWs(WsSend(Ws, <<order>>))
                /\ returned' = IF client_order_id = <<>> THEN Append(returned, order.id)
                               ELSE returned
                /\ ret' = Result("create_order", "", <<order>>)
                /\ UNCHANGED awaiting
        /\ UNCHANGED <<now, position_size, lock, callers, log, disp, stale>>

\* cancel_order: rest.cancel_order returns None for a falsy or unknown id, and
\* the adapter raises ValueError("order not found").
CancelOrder(order_id, symbol) ==
    LET found == order_id # EmptyId /\ CancelFinds(orders, order_id)
        d2    == CancelLedger(orders, order_id, now)
        order == _to_order_data(DictGet(d2, order_id))
    IN  /\ Idle
        /\ IF found
           THEN /\ CanSend(Ws, 1)
                /\ orders' = d2
                /\ SetWs(WsSend(Ws, <<order>>))
                /\ ret' = Result("cancel_order", "", <<order>>)
                /\ UNCHANGED awaiting
           ELSE /\ ret' = Result("cancel_order", "OrderNotFound", <<>>)
                /\ UNCHANGED <<orders, wsVars, sent, owed, emitted>>
        /\ UNCHANGED <<now, balance, position_size, lock, callers, log, disp, stale, returned>>

\* cancel_all_orders: the loop over the snapshot get_open_orders returned,
\* from its i-th element on.  s = the ledger, the channel and the result so far.
RECURSIVE CancelEach(_, _, _)
CancelEach(s, open, i) ==
    IF i > Len(open) THEN s
    ELSE LET order_id == open[i].id
             found == order_id # EmptyId /\ CancelFinds(s.orders, order_id)
             d2 == CancelLedger(s.orders, order_id, now)
             updated == _to_order_data(DictGet(d2, order_id))
         IN  IF found
             THEN CancelEach([orders |-> d2, ws |-> WsSend(s.ws, <<updated>>),
                              cancelled |-> Append(s.cancelled, updated)], open, i + 1)
             ELSE CancelEach(s, open, i + 1)

CancelAllOrders(symbol) ==
    LET open_orders == get_open_orders(orders, symbol)
        s == CancelEach([orders |-> orders, ws |-> Ws, cancelled |-> <<>>], open_orders, 1)
    IN  /\ Idle
        /\ CanSend(Ws, Len(open_orders))
        /\ orders' = s.orders
        /\ SetWs(s.ws)
        /\ ret' = Result("cancel_all_orders", "", s.cancelled)
        /\ UNCHANGED <<now, balance, position_size, lock, callers, awaiting, log, disp, stale,
                       returned>>

\* The wall clock moves on between two steps of the event loop.
Tick ==
    /\ Idle
    /\ now < MaxClock
    /\ now' = now + 1
    /\ UNCHANGED <<orders, balance, position_size, lock, callers, wsVars, histVars,
                   returned, ret>>

\* ------------------------------------------------------ the queries
\* None of them suspends, and none assigns a field: each is one step that
\* leaves everything but its result as it was.
Query(op, err, val) ==
    /\ Idle
    /\ ret' = Result(op, err, val)
    /\ UNCHANGED <<restVars, wsVars, histVars, returned>>

\* GrvtAdapter.get_open_orders
GetOpenOrders(symbol) == Query("get_open_orders", "", get_open_orders(orders, symbol))

\* GrvtAdapter.get_order_history: every record (of the symbol, if one is given),
\* in dict order, read from rest._orders directly.
InHistoryOpenOnly(item, symbol) ==
    item.status = "OPEN" /\ (symbol = <<>> \/ item.symbol = symbol[1])
InHistory(item, symbol) == symbol = <<>> \/ item.symbol = symbol[1]
RECURSIVE HistoryFrom(_, _, _)
HistoryFrom(d, symbol, i) ==
    IF i > Len(d) THEN <<>>
    ELSE (IF InHistory(d[i], symbol) THEN <<_to_order_data(d[i])>> ELSE <<>>)
         \o HistoryFrom(d, symbol, i + 1)
get_order_history(d, symbol) == HistoryFrom(d, symbol, 1)
GetOrderHistory(symbol) ==
    Query("get_order_history", "", get_order_history(orders, symbol))

\* GrvtAdapter.get_order: the first open order (of the symbol) with that id,
\* else rest._orders.get(order_id) if there is one, else ValueError("order
\* not found").
FirstWithId(seq, order_id) == seq[Min({i \in DOMAIN seq : seq[i].id = order_id})]
CachedNever(d, order_id) == FALSE
Cached(d, order_id) == HasKey(d, order_id)
GetOrder(order_id, symbol) ==
    LET open_orders == get_open_orders(orders, <<symbol>>)
    IN  IF \E i \in DOMAIN open_orders : open_orders[i].id = order_id
        THEN Query("get_order", "", <<FirstWithId(open_orders, order_id)>>)
        ELSE IF Cached(orders, order_id)
        THEN Query("get_order", "", <<_to_order_data(DictGet(orders, order_id))>>)
        ELSE Query("get_order", "OrderNotFound", <<>>)

\* GrvtRest.get_balance
get_balance(b) == [currency |-> "USDC", free |-> b, used |-> 0, total |-> b]
\* GrvtAdapter.get_balances
GetBalances == Query("get_balances", "", <<get_balance(balance)>>)

\* GrvtRest.get_position: self._position_size.get(symbol, Decimal("0"))
SizeOf(ps, symbol) ==
    IF \E i \in DOMAIN ps : ps[i].symbol = symbol
    THEN ps[CHOOSE i \in DOMAIN ps : ps[i].symbol = symbol].size
    ELSE 0
get_position(ps, symbol) ==
    LET size == SizeOf(ps, symbol)
    IN  [symbol |-> symbol, side |-> IF size >= 0 THEN "LONG" ELSE "SHORT",
         size |-> IF size >= 0 THEN size ELSE 0 - size]
\* GrvtAdapter.get_positions([symbol])
GetPositions(symbol) == Query("get_positions", "", <<get_position(position_size, symbol)>>)

\* ------------------------------------------------------ GrvtRest, step by step
\* place_limit_order, cancel_order and get_open_orders taken apart at
\* `async with self._lock`: entering (Lock.acquire), the body, leaving
\* (Lock.release).  The steps of different callers interleave here as if a
\* holder could be suspended inside the block, which is more than the event
\* loop allows: what holds of these runs holds of the loop's.
RestOps == {"place", "cancel", "open"}
RestArgs(op) ==
    IF op = "place" THEN {[id |-> cid, rq |-> <<rq>>] : cid \in OptClientIds, rq \in Requests}
    ELSE IF op = "cancel" THEN {[id |-> <<id>>, rq |-> <<>>] : id \in AllIds \cup {EmptyId}}
    ELSE {[id |-> <<>>, rq |-> <<>>]}
Inside(c) == callers[c].pc \in {"in", "out"}
restStepFrame == <<now, balance, position_size, wsVars, histVars, returned, ret>>

\* Lock.acquire(): taken at once if the lock is free and nobody waits for it,
\* else the caller joins the waiters and suspends.
RestEnter(c, op, a) ==
    /\ callers[c].pc = "idle"
    /\ IF ~lock.locked /\ lock.waiters = <<>>
       THEN /\ lock' = [lock EXCEPT !.locked = TRUE]
            /\ callers' = [callers EXCEPT ![c] = [pc |-> "in", op |-> op, id |-> a.id, rq |-> a.rq]]
       ELSE /\ lock' = [lock EXCEPT !.waiters = Append(@, c)]
            /\ callers' = [callers EXCEPT ![c] = [pc |-> "wait", op |-> op, id |-> a.id, rq |-> a.rq]]
    /\ UNCHANGED <<orders, restStepFrame>>

\* release() woke the first waiter: it resumes in acquire() and takes the lock.
RestAcquired(c) ==
    /\ callers[c].pc = "wait"
    /\ ~lock.locked
    /\ lock.waiters # <<>> /\ Head(lock.waiters) = c
    /\ lock' = [locked |-> TRUE, waiters |-> Tail(lock.waiters)]
    /\ callers' = [callers EXCEPT ![c].pc = "in"]
    /\ UNCHANGED <<orders, restStepFrame>>

\* The body of the `async with` block, up to its return statement.
RestBodyAfter(d, cl) ==
    IF cl.op = "place"
    THEN PlaceLedger(d, cl.rq[1].symbol, "buy", OrZero(cl.rq[1].price), cl.rq[1].amount,
                     cl.id, now)
    ELSE IF cl.op = "cancel" /\ cl.id[1] # EmptyId
    THEN CancelLedger(d, cl.id[1], now)
    ELSE d
RestBodyLeaksOnMiss(c) ==
    /\ callers[c].pc = "in"
    /\ orders' = RestBodyAfter(orders, callers[c])
    /\ callers' = IF callers[c].op = "cancel" /\ orders' = orders
                  THEN [callers EXCEPT ![c] = IdleCaller]
                  ELSE [callers EXCEPT ![c].pc = "out"]
    /\ UNCHANGED <<lock, restStepFrame>>
RestBody(c) ==
    /\ callers[c].pc = "in"
    /\ orders' = RestBodyAfter(orders, callers[c])
    /\ callers' = [callers EXCEPT ![c].pc = "out"]
    /\ UNCHANGED <<lock, restStepFrame>>

\* Leaving the block, by return or by falling off its end: Lock.release().
RestLeave(c) ==
    /\ callers[c].pc = "out"
    /\ lock' = [lock EXCEPT !.locked = FALSE]
    /\ callers' = [callers EXCEPT ![c] = IdleCaller]
    /\ UNCHANGED <<orders, restStepFrame>>

RestStep(c) == RestAcquired(c) \/ RestBody(c) \/ RestLeave(c)

LedgerNext ==
    \/ \E rq \in Requests, sd \in Sides, ty \in OrderTypes, cid \in OptClientIds :
          CreateOrder(rq.symbol, sd, ty, rq.amount, rq.price, cid)
    \/ \E id \in AllIds \cup {EmptyId}, sy \in Symbols : CancelOrder(id, sy)
    \/ \E sy \in OptSymbols : CancelAllOrders(sy)
    \/ Tick

ChannelNext ==
    \/ Connect
    \/ DisconnectBegin
    \/ \E t \in TaskIds : DisconnectResume(t)
    \/ \E cb \in Callbacks : SubscribeUserStream(cb)
    \/ Unsubscribe
    \/ SendUserEvent
    \/ \E t \in TaskIds : ConsumerStep(t)

QueryNext ==
    \/ \E sy \in OptSymbols : GetOpenOrders(sy)
    \/ \E sy \in OptSymbols : GetOrderHistory(sy)
    \/ \E id \in AllIds \cup {EmptyId}, sy \in Symbols : GetOrder(id, sy)
    \/ GetBalances
    \/ \E sy \in Symbols : GetPositions(sy)

RestNext ==
    \/ \E c \in Callers, op \in RestOps : \E a \in RestArgs(op) : RestEnter(c, op, a)
    \/ \E c \in Callers : RestStep(c)

\* The adapter's place and cancel of one order together with the channel:
\* the events the ledger calls emit, as the consumer delivers them.
DeliveryNext ==
    \/ /\ sent < MaxEmits
       /\ \E cid \in ClientIds : CreateOrder("BTC", "buy", "LIMIT", 1, <<>>, <<cid>>)
    \/ /\ sent < MaxEmits
       /\ \E cid \in ClientIds : CancelOrder(cid, "BTC")
    \/ ChannelNext

Next == LedgerNext \/ QueryNext \/ ChannelNext

Spec == Init /\ [][Next]_vars

LedgerSpec == Init /\ [][LedgerNext]_vars
QuerySpec == Init /\ [][LedgerNext \/ QueryNext]_vars
\* The GrvtRest methods step by step.  A caller that entered a method goes
\* on: the event loop runs every coroutine that is ready.
RestSpec == Init /\ [][RestNext]_vars
FairRestSpec == RestSpec /\ \A c \in Callers : WF_vars(RestStep(c))
ChannelSpec == Init /\ [][ChannelNext]_vars
DeliverySpec == Init /\ [][DeliveryNext]_vars

\* The event loop runs every task that is ready, and (by the subscribers'
\* contract) a coroutine subscriber returns: each consumer step and each
\* resumption of a suspended disconnect() that stays possible is taken.
FairChannelSpec ==
    /\ ChannelSpec
    /\ \A t \in TaskIds : WF_vars(ConsumerStep(t))
    /\ \A t \in TaskIds : WF_vars(DisconnectResume(t))

\* ================================================================ claims
IdsOf(seq) == {seq[i].id : i \in DOMAIN seq}
StatusOf(d, k) == DictGet(d, k).status
\* The log entries of event n, in order.
LogOf(n) == SelectSeq(log, LAMBDA e : e.ev = n)
Ended(ph) == ph \in {"return", "raise", "cancelled"}
Called(n, r) == \E i \in DOMAIN log : log[i].ev = n /\ log[i].reg = r /\ log[i].ph = "call"

\* C1: the ids returned by place calls that omit client_order_id are pairwise
\* distinct, and the ledger holds one record for each of them.
C1_GeneratedIdsUnique ==
    /\ \A i, j \in DOMAIN returned : i # j => returned[i] # returned[j]
    /\ Cardinality({k \in Keys(orders) : \E i \in DOMAIN returned : returned[i] = k})
         = Len(returned)

\* C2: no resurrection: a record whose status is not OPEN never has status
\* OPEN again, whatever place / cancel / cancel_all call comes next.
C2_NoResurrection ==
    [][\A k \in Keys(orders) :
          StatusOf(orders, k) # "OPEN" => StatusOf(orders', k) # "OPEN"]_vars

\* C3: an event sent while disconnected leaves the connection connected, and
\* is eventually delivered to every subscriber registered when it was sent,
\* unless a disconnect() or unsubscribe() is called after it was sent.
C3_EmitWhileDisconnectedDelivers ==
    /\ [][sent' > sent => connected']_vars
    /\ \A n \in EventIds :
          [](owed[n] > 0 => <>(owed[n] = 0 \/ \A r \in 1..owed[n] : Called(n, r)))

\* C4: an event that sat in the queue when disconnect() was called is never
\* delivered to a subscriber afterwards.
C4_QueuedAtDisconnectIsLost ==
    \A i \in DOMAIN log : log[i].ev \notin stale

\* The fan-out of event n as the log shows it: call 1, end 1, call 2, end 2, ...
\* each subscriber once, in registration order, each ended before the next
\* is called.
InOrder(n) ==
    LET L == LogOf(n)
    IN  /\ Len(L) <= 2 * disp[n].len
        /\ \A i \in DOMAIN L :
              /\ L[i].reg = (i + 1) \div 2
              /\ L[i].ph = "call" <=> i % 2 = 1
              /\ L[i].ph = "cancelled" => i = Len(L) /\ disp[n].st = "cancelled"
FanOutOver(n) == disp[n].st \notin {"none", "active"}
ReachedAll(n) ==
    /\ Len(LogOf(n)) = 2 * disp[n].len
    /\ \A i \in DOMAIN LogOf(n) : LogOf(n)[i].ph # "cancelled"

\* C5 as stated: once the fan-out of an event is over, every subscriber
\* registered when it was dequeued was invoked exactly once, in registration
\* order, each to its end before the next.
C5_FanOutReachesEverySubscriber ==
    \A n \in EventIds : FanOutOver(n) => InOrder(n) /\ ReachedAll(n)

\* C5, amended: the same, unless the consumer is cancelled while suspended in
\* a coroutine subscriber of that event: then the fan-out stops at that
\* subscriber.  A subscriber that raises leaves the consumer on the event
\* (at the next subscriber), and the task alive.
OnEvent(t, n) == tasks[t].ev = n /\ tasks[t].st \in {"run_fan", "cb"}
C5_FanOutState ==
    \A n \in EventIds :
        /\ disp[n].st \in {"none", "active", "complete", "cancelled"}
        /\ InOrder(n)
        /\ disp[n].st = "none" => LogOf(n) = <<>>
        /\ disp[n].st = "complete" => ReachedAll(n)
        /\ disp[n].st = "cancelled" =>
              /\ LogOf(n) # <<>>
              /\ LogOf(n)[Len(LogOf(n))].ph = "cancelled"
              /\ IsCoro(LogOf(n)[Len(LogOf(n))].cb)
        /\ disp[n].st = "active" =>
              \E t \in TaskIds :
                  /\ OnEvent(t, n)
                  /\ Len(tasks[t].snap) = disp[n].len
                  /\ \A i \in DOMAIN LogOf(n) :
                        LogOf(n)[i].cb = tasks[t].snap[LogOf(n)[i].reg]
C5_RaiseKeepsConsumer ==
    \A t \in TaskIds :
        (/\ OnEvent(t, tasks[t].ev)
         /\ Len(log') > Len(log)
         /\ log'[Len(log')].ev = tasks[t].ev
         /\ log'[Len(log')].ph = "raise")
        => /\ tasks'[t].st = "run_fan"
           /\ tasks'[t].idx = tasks[t].idx + 1
C5_FanOutUnlessCancelled == []C5_FanOutState /\ [][C5_RaiseKeepsConsumer]_vars
\* A fan-out over B (raises), C (coroutine) and A that reached all three.
C5_Witness ==
    \E n \in EventIds :
        /\ disp[n].st = "complete" /\ disp[n].len = 3
        /\ LogOf(n)[2].ph = "raise" /\ LogOf(n)[3].ph = "call" /\ LogOf(n)[6].ph = "return"

\* C6: FIFO per subscriber: when a subscriber is called with an event, every
\* call of it with an earlier-sent event came before and has ended.
C6_FifoPerSubscriber ==
    \A p, q \in DOMAIN log :
        (/\ log[p].ph = "call" /\ log[q].ph = "call"
         /\ log[p].cb = log[q].cb
         /\ log[q].ev < log[p].ev)
        => /\ q < p
           /\ \E e \in (q + 1)..(p - 1) :
                 log[e].ev = log[q].ev /\ log[e].reg = log[q].reg /\ Ended(log[e].ph)

\* C7: cancel_all(symbol) returns only orders that were OPEN (and of that
\* symbol) when it ran, each once and now CANCELED, emits one event per
\* returned order, and leaves every other order as it was, out of the result
\* and without an event.
IsOpenFor(o, sy) == o.status = "OPEN" /\ (sy = <<>> \/ o.symbol = sy[1])
NewEvents == {q \in DOMAIN queue' : q > Len(queue)}
C7_CancelAllStep(sy) ==
    LET res == ret'.val
    IN  /\ ret'.err = ""
        /\ \A i \in DOMAIN res :
              /\ res[i].status = "CANCELED"
              /\ \E j \in DOMAIN orders : orders[j].id = res[i].id /\ IsOpenFor(orders[j], sy)
        /\ \A i, j \in DOMAIN res : i # j => res[i].id # res[j].id
        /\ Len(orders') = Len(orders)
        /\ sent' = sent + Len(res)
        /\ Len(queue') = Len(queue) + Len(res)
        /\ \A j \in DOMAIN orders :
              IF IsOpenFor(orders[j], sy)
              THEN orders'[j].status = "CANCELED" /\ orders[j].id \in IdsOf(res)
              ELSE /\ orders'[j] = orders[j]
                   /\ orders[j].id \notin IdsOf(res)
                   /\ \A q \in NewEvents : queue'[q].data[1].id # orders[j].id
C7_CancelAllOnlyOpen ==
    [][\A sy \in OptSymbols : CancelAllOrders(sy) => C7_CancelAllStep(sy)]_vars
\* cancel_all has just cancelled an order and passed over a CANCELED one.
C7_Witness ==
    /\ ret.op = "cancel_all_orders" /\ ret.val # <<>>
    /\ \E j \in DOMAIN orders :
          orders[j].status = "CANCELED" /\ orders[j].id \notin IdsOf(ret.val)

\* C8: cancel of an id not in the ledger fails with OrderNotFound, changes no
\* record and emits nothing; cancel of a CANCELED order succeeds, returns it
\* CANCELED and changes no status.
C8_CancelStep(id) ==
    /\ ~HasKey(orders, id) =>
          /\ ret'.err = "OrderNotFound"
          /\ orders' = orders /\ queue' = queue /\ sent' = sent
    /\ (HasKey(orders, id) /\ StatusOf(orders, id) = "CANCELED") =>
          /\ ret'.err = "" /\ Len(ret'.val) = 1
          /\ ret'.val[1].id = id /\ ret'.val[1].status = "CANCELED"
          /\ Len(orders') = Len(orders)
          /\ \A j \in DOMAIN orders :
                orders'[j].id = orders[j].id /\ orders'[j].status = orders[j].status
C8_CancelUnknownOrCanceled ==
    [][\A id \in AllIds \cup {EmptyId}, sy \in Symbols :
          CancelOrder(id, sy) => C8_CancelStep(id)]_vars
\* The last two events are cancels of the same order: the second cancel found
\* it CANCELED.
C8_Witness ==
    /\ ret.op = "cancel_order" /\ ret.err = ""
    /\ Len(queue) >= 2
    /\ queue[Len(queue)].data[1].id = ret.val[1].id
    /\ queue[Len(queue) - 1].data[1].id = ret.val[1].id
    /\ queue[Len(queue) - 1].data[1].status = "CANCELED"

\* C9: a place call with a limit-family type returns an order with status
\* OPEN, filled 0, remaining = amount and cost = price * amount (a missing
\* price counts as 0), and the ledger holds that record under the returned id.
C9_PlaceStep(rq) ==
    /\ ret'.err = "" /\ Len(ret'.val) = 1
    /\ LET o == ret'.val[1]
           price == IF rq.price = <<>> THEN 0 ELSE rq.price[1]
       IN  /\ o.status = "OPEN" /\ o.filled = 0
           /\ o.remaining = rq.amount
           /\ o.cost = price * rq.amount
           /\ HasKey(orders', o.id)
           /\ LET r == DictGet(orders', o.id)
              IN  /\ r.status = "OPEN" /\ r.filled = 0
                  /\ r.amount = rq.amount /\ r.price = price
C9_PlaceReturnsOpenOrder ==
    [][\A rq \in Requests, sd \in Sides, ty \in {"LIMIT", "POST_ONLY", "FOK", "IOC"},
          cid \in OptClientIds :
          CreateOrder(rq.symbol, sd, ty, rq.amount, rq.price, cid) => C9_PlaceStep(rq)]_vars
C9_Witness ==
    /\ ret.op = "create_order" /\ ret.err = ""
    /\ ret.val[1].remaining = 2 /\ ret.val[1].cost = 6
    /\ HasKey(orders, ret.val[1].id)

\* C10: a place call with a type outside {LIMIT, POST_ONLY, FOK, IOC} fails
\* with the unsupported-type error and changes neither the ledger, nor the
\* queue, nor the connection.
C10_RejectStep ==
    /\ ret'.err = "UnsupportedOrderType"
    /\ UNCHANGED <<orders, queue, sent, connected, consumer_task, tasks, getters, callbacks>>
C10_UnsupportedTypeNoEffect ==
    [][\A rq \in Requests, sd \in Sides, cid \in OptClientIds,
          ty \in OrderTypes \ {"LIMIT", "POST_ONLY", "FOK", "IOC"} :
          CreateOrder(rq.symbol, sd, ty, rq.amount, rq.price, cid) => C10_RejectStep]_vars
\* A rejected place call on a ledger and a queue that are not empty.
C10_Witness ==
    /\ ret.op = "create_order" /\ ret.err = "UnsupportedOrderType"
    /\ orders # <<>> /\ queue # <<>>

\* C11: in every reachable ledger state, get_open_orders(symbol?) returns
\* exactly the records whose status is OPEN (and whose symbol is the one
\* given, if one is given): each such record once, as it is in the ledger,
\* and no other.
C11_OpenStep(sy) ==
    LET res == ret'.val
    IN  /\ ret'.err = ""
        /\ \A j \in DOMAIN orders :
              IsOpenFor(orders[j], sy) <=> orders[j].id \in IdsOf(res)
        /\ \A i, k \in DOMAIN res : i # k => res[i].id # res[k].id
        /\ \A i \in DOMAIN res :
              /\ res[i].status = "OPEN"
              /\ \E j \in DOMAIN orders :
                    /\ orders[j].id = res[i].id /\ orders[j].symbol = res[i].symbol
                    /\ orders[j].amount = res[i].amount /\ orders[j].price = res[i].price
C11_OpenOrdersExact ==
    [][\A sy \in OptSymbols : GetOpenOrders(sy) => C11_OpenStep(sy)]_vars
\* get_open_orders("ETH") returned one order out of a ledger that also holds
\* a CANCELED order and an OPEN order of another symbol.
C11_Witness ==
    /\ ret.op = "get_open_orders" /\ Len(ret.val) = 1 /\ ret.val[1].symbol = "ETH"
    /\ \E j \in DOMAIN orders : orders[j].status = "CANCELED"
    /\ \E j \in DOMAIN orders : orders[j].status = "OPEN" /\ orders[j].symbol = "BTC"

\* C12: history is retained.  No step removes a record from the ledger; the
\* order a successful place returns is in the ledger; get_order_history()
\* returns every record (of the symbol, if one is given) once, with the
\* ledger's status, and get_order returns a record that is in the ledger with
\* that status; on a ledger of one order, placed then cancelled,
\* get_open_orders() is empty and get_order_history() is that one order,
\* CANCELED.
C12_NoRemoval ==
    /\ Len(orders') >= Len(orders)
    /\ \A k \in Keys(orders) : HasKey(orders', k)
    /\ (ret' # ret /\ ret'.op = "create_order" /\ ret'.err = "") => HasKey(orders', ret'.val[1].id)
C12_HistoryStep(sy) ==
    LET res == ret'.val
    IN  /\ \A j \in DOMAIN orders :
              (sy = <<>> \/ orders[j].symbol = sy[1]) <=> orders[j].id \in IdsOf(res)
        /\ \A i, k \in DOMAIN res : i # k => res[i].id # res[k].id
        /\ \A i \in DOMAIN res :
              HasKey(orders, res[i].id) /\ res[i].status = StatusOf(orders, res[i].id)
        /\ (sy = <<>> /\ Len(orders) = 1 /\ orders[1].status = "CANCELED") =>
              Len(res) = 1 /\ res[1].id = orders[1].id /\ res[1].status = "CANCELED"
C12_GetStep(id) ==
    HasKey(orders, id) =>
        /\ ret'.err = "" /\ Len(ret'.val) = 1
        /\ ret'.val[1].id = id /\ ret'.val[1].status = StatusOf(orders, id)
C12_HistoryRetained ==
    [][/\ C12_NoRemoval
       /\ \A sy \in OptSymbols : GetOrderHistory(sy) => C12_HistoryStep(sy)
       /\ \A id \in AllIds, sy \in Symbols : GetOrder(id, sy) => C12_GetStep(id)
       /\ (GetOpenOrders(<<>>) /\ Len(orders) = 1 /\ orders[1].status = "CANCELED")
             => ret'.val = <<>>]_vars
\* get_order_history() on a ledger of one order, placed then cancelled.
C12_Witness ==
    /\ ret.op = "get_order_history" /\ Len(ret.val) = 1 /\ ret.val[1].status = "CANCELED"
    /\ Len(orders) = 1 /\ Len(emitted) = 2

\* C13: no place, cancel or cancel_all changes the balance or a position
\* size: after any sequence of them the balance is free = total = the initial
\* balance, used = 0, and every position has size 0.
C13_BalanceStep ==
    /\ balance' = balance /\ position_size' = position_size
    /\ GetBalances =>
          /\ ret'.val[1].free = InitialBalance /\ ret'.val[1].total = InitialBalance
          /\ ret'.val[1].used = 0
    /\ \A sy \in Symbols : GetPositions(sy) => ret'.val[1].size = 0
C13_BalanceUnchanged == [][C13_BalanceStep]_vars
\* get_balances after orders were placed and one of them cancelled.
C13_Witness ==
    /\ ret.op = "get_balances" /\ ret.val[1].free = InitialBalance
    /\ \E j \in DOMAIN orders : orders[j].status = "CANCELED"
    /\ \E j \in DOMAIN orders : orders[j].status = "OPEN" /\ orders[j].price > 0

\* C14: unsubscribe() empties the subscriber list whatever it held and leaves
\* the ledger, the queue and the connection as they were; the list stays
\* empty until a subscribe, and an event the consumer dequeues while it is
\* empty invokes no callback.
C14_UnsubscribeStep ==
    /\ Unsubscribe =>
          /\ callbacks' = <<>>
          /\ UNCHANGED <<orders, queue, connected, consumer_task, tasks, getters>>
    /\ (callbacks = <<>> /\ callbacks' # <<>>) => \E cb \in Callbacks : SubscribeUserStream(cb)
    /\ \A t \in TaskIds :
          (ConsumerGet(t) /\ queue # <<>> /\ callbacks = <<>>) =>
              /\ disp'[Head(queue).n] = [st |-> "active", len |-> 0]
              /\ tasks'[t].snap = <<>>
C14_NoCallbackState ==
    \A n \in EventIds : (disp[n].st # "none" /\ disp[n].len = 0) => LogOf(n) = <<>>
C14_UnsubscribeClearsAll == []C14_NoCallbackState /\ [][C14_UnsubscribeStep]_vars
\* The first event reached subscribers; the second, dequeued after the
\* unsubscribe that emptied the list, was dispatched to nobody.
C14_Witness ==
    /\ LogOf(1) # <<>>
    /\ disp[2] = [st |-> "complete", len |-> 0]
    /\ callbacks = <<>>

\* C15: at most once, no replay: no event is ever passed twice to the same
\* subscriber registration, whatever subscribe, emit, connect and disconnect
\* calls are made.
C15_AtMostOnce ==
    \A p, q \in DOMAIN log :
        (/\ p # q
         /\ log[p].ph = "call" /\ log[q].ph = "call"
         /\ log[p].ev = log[q].ev)
        => log[p].reg # log[q].reg
\* Two events went through their whole fan-out, one of them after it had sat
\* in the queue across a disconnect() and a reconnect.
C15_Witness ==
    /\ stale # {}
    /\ disp[1].st = "complete" /\ disp[1].len >= 2
    /\ disp[2].st = "complete" /\ disp[2].len >= 2

\* C17: single consumer: at most one consumer task that was started and
\* neither ended nor was cancelled exists at any time, and a connect() on a
\* connected channel starts none.
LiveConsumers == {t \in TaskIds : Live(tasks, t) /\ ~tasks[t].cancel}
C17_SingleConsumer == Cardinality(LiveConsumers) <= 1

\* C18: whenever no disconnect() is suspended (connect() never is), the
\* channel is connected if and only if _consumer_task holds a task that has
\* not ended.
C18_StateMatchesConsumer ==
    Suspended = 0 =>
        (connected <=> (consumer_task # 0 /\ Live(tasks, consumer_task)))

\* C19: ledger mutual exclusion: at most one caller is inside a critical
\* section and the lock is held exactly while one is; every change of an
\* order record is made by the caller that holds the lock; every caller that
\* entered a method leaves it with the lock released (also a cancel that
\* returns early on an unknown id), so a caller waiting for the lock gets it.
C19_Mutex ==
    /\ Cardinality({c \in Callers : Inside(c)}) <= 1
    /\ lock.locked <=> \E c \in Callers : Inside(c)
    /\ \A i \in DOMAIN lock.waiters : callers[lock.waiters[i]].pc = "wait"
    /\ \A c \in Callers :
          callers[c].pc = "wait" => \E i \in DOMAIN lock.waiters : lock.waiters[i] = c
C19_WriteUnderLock ==
    orders' # orders =>
        \E c \in Callers :
            /\ callers[c].pc = "in" /\ lock.locked /\ lock'.locked
            /\ callers[c].op \in {"place", "cancel"}
            /\ \A o \in Callers \ {c} : ~Inside(o)
C19_Released ==
    \A c \in Callers :
        /\ callers[c].pc = "wait" ~> callers[c].pc = "in"
        /\ callers[c].pc = "in" ~> (callers[c].pc = "idle" /\ ~lock.locked)
C19_LockDiscipline == []C19_Mutex /\ [][C19_WriteUnderLock]_vars /\ C19_Released
\* A cancel of an unknown id is about to return early, holding the lock,
\* while another caller waits for it.
C19_Witness ==
    \E c, w \in Callers :
        /\ callers[c].pc = "out" /\ callers[c].op = "cancel"
        /\ ~HasKey(orders, callers[c].id[1])
        /\ callers[w].pc = "wait" /\ callers[w].op = "place"

\* C16: get_order(id, symbol) returns the ledger's record for id whenever id
\* is in the ledger, OPEN or not and whatever the symbol passed, and fails with
\* OrderNotFound exactly when id is not in the ledger.
C16_GetOrderStep(id) ==
    IF HasKey(orders, id)
    THEN /\ ret'.err = "" /\ Len(ret'.val) = 1
         /\ ret'.val[1] = _to_order_data(DictGet(orders, id))
    ELSE ret'.err = "OrderNotFound" /\ ret'.val = <<>>
C16_GetOrderFindsAnyStatus ==
    [][\A id \in AllIds \cup {EmptyId}, sy \in Symbols :
          GetOrder(id, sy) => C16_GetOrderStep(id)]_vars
\* get_order has just returned a CANCELED order.
C16_Witness ==
    /\ ret.op = "get_order" /\ ret.err = "" /\ ret.val[1].status = "CANCELED"
    /\ HasKey(orders, ret.val[1].id)

\* The events emitted for order id k, by their number.
EventsFor(k) == {n \in DOMAIN emitted : emitted[n] # <<>> /\ emitted[n][1].id = k}
Max(S) == CHOOSE x \in S : \A y \in S : y <= x
\* The calls of the r-th subscriber with an event of order id k, in order.
CallsFor(k, r) ==
    SelectSeq(log, LAMBDA e : e.ph = "call" /\ e.reg = r /\ e.ev \in EventsFor(k))

\* C20: every successful place and cancel enqueues one event carrying the
\* order it returns, in the order of the ledger mutations, so that once every
\* event of an order id has been dispatched to a subscriber, the last one that
\* subscriber was called with shows the order's status in the ledger.
C20_LastDeliveredIsFinal ==
    \A k \in Keys(orders), r \in 1..MaxSubs :
        (\A n \in EventsFor(k) : disp[n].st = "complete" /\ disp[n].len >= r)
        => LET calls == CallsFor(k, r)
           IN  calls # <<>> =>
                   emitted[calls[Len(calls)].ev][1].status = StatusOf(orders, k)

\* The part of C20 that is about enqueueing: each successful place, cancel
\* and per-order cancel of cancel_all appends exactly the orders it returns to
\* the events, and the last event emitted for an order id carries the status
\* the ledger holds for it.
C20_EnqueueStep ==
    (ret' # ret /\ ret'.err = "" /\ ret'.op \in {"create_order", "cancel_order", "cancel_all_orders"})
    => /\ emitted' = emitted \o [i \in DOMAIN ret'.val |-> <<ret'.val[i]>>]
       /\ \A i \in DOMAIN ret'.val :
             ret'.val[i] = _to_order_data(DictGet(orders', ret'.val[i].id))
C20_LastEmittedState ==
    \A k \in Keys(orders) :
        /\ EventsFor(k) # {}
        /\ emitted[Max(EventsFor(k))][1].status = StatusOf(orders, k)
C20_EnqueuedInLedgerOrder == []C20_LastEmittedState /\ [][C20_EnqueueStep]_vars
====
